---- MODULE Spec2Model ----
(***************************************************************************)
(* Model of etl.py: the Spark job that reads the song (catalog) data and   *)
(* the log (activity) data and writes the five parquet tables songs,       *)
(* artists, users, time and songplays.                                     *)
(*                                                                         *)
(* A DataFrame is a record [schema, rows]: schema is the set of column     *)
(* names, rows a sequence of functions from the schema to values.          *)
(* A nullable value is encoded as <<>> (null) or <<v>>.                    *)
(* An epoch-millisecond value t is kept as [s |-> t div 1000,              *)
(* ms |-> t mod 1000], and a Spark timestamp as [secs, micros], because    *)
(* the numbers themselves do not fit in 32-bit integers.                   *)
(***************************************************************************)
EXTENDS Integers, Sequences, FiniteSets, TLC

VARIABLES catalog, log, store, pc, run, error, written, previous,
          songs_table, artists_table, user_table, time_table, songplays_table

vars == <<catalog, log, store, pc, run, error, written, previous,
          songs_table, artists_table, user_table, time_table, songplays_table>>

(* ---------------------------- bounds ---------------------------------- *)
MaxCatalog == 2
MaxLog == 2
MaxRuns == 2
NumPartitions == 2

(* ------------------------- module constants --------------------------- *)
ALLOW_WRITE == TRUE

Null == <<>>
Some(v) == <<v>>

(* Offset of the local time zone of datetime.fromtimestamp, in seconds.   *)
LocalUtcOffset == 0

(* ------------------------------ inputs -------------------------------- *)
SongSchema ==
  {"song_id", "title", "artist_id", "year", "duration", "artist_name",
   "artist_location", "artist_latitude", "artist_longitude", "num_songs"}

LogSchema ==
  {"artist", "firstName", "lastName", "gender", "level", "location", "page",
   "sessionId", "ts", "userAgent", "userId", "song"}

Song(id, title, artistId, yr, dur, name) ==
  [song_id |-> id, title |-> title, artist_id |-> artistId, year |-> yr,
   duration |-> dur, artist_name |-> name, artist_location |-> "Loc",
   artist_latitude |-> 35, artist_longitude |-> 90, num_songs |-> 1]

\* Song files as they may sit under song-data/A/A/*/*.json.
SongFiles ==
  << Song("S1", "T1", "AR1", 2000, 200, Some("A")),
     Song("S1", "T1", "AR1", 2000, 201, Some("A")),
     Song("S2", "T2", "AR2", 2001, 300, Some("A")),
     Song("S4", "T4", "AR3", 0, 180, Null) >>

Event(artist, first, level, page, session, s, ms, uid, song) ==
  [artist |-> artist, firstName |-> first, lastName |-> "L", gender |-> "F",
   level |-> level, location |-> "City", page |-> page, sessionId |-> session,
   ts |-> [s |-> s, ms |-> ms], userAgent |-> "UA", userId |-> uid,
   song |-> song]

\* Log events as they may sit under log-data/*.json.
LogEvents ==
  << Event(Some("A"), "Ann", "free", "NextSong", 1, 1541990258, 796,
           <<"2", "6">>, Some("T1")),
     Event(Some("A"), "Ann", "free", "NextSong", 1, 1541990258, 123,
           <<"0", "2", "6">>, Some("T1")),
     Event(Null, "Carl", "free", "Home", 2, 1541990258, 500,
           <<"9">>, Null),
     Event(Some("B"), "Bob", "paid", "NextSong", 3, 1546300799, 0,
           <<" ", "8">>, Some("T9")),
     Event(Null, "Dan", "free", "NextSong", 4, 1541990258, 796,
           <<>>, Null) >>

\* The multisets of at most max records, as non-decreasing index sequences.
Bags(n, max) ==
  UNION { { f \in [1..k -> 1..n] : \A i \in 1..(k - 1) : f[i] <= f[i + 1] }
          : k \in 0..max }

(* --------------------------- DataFrame ops ---------------------------- *)
NoDF == [schema |-> {}, rows |-> <<>>]

Computed(df) == df.schema # {}

RowSet(df) == { df.rows[i] : i \in 1..Len(df.rows) }

\* spark.read.json over the matched files
ReadJson(records, schema) ==
  [schema |-> schema,
   rows |-> [i \in 1..Len(records) |-> [c \in schema |-> records[i][c]]]]

read_song_data(files) == ReadJson(files, SongSchema)

read_log_data(files) == ReadJson(files, LogSchema)

\* df[c1, c2, ...]
Select(df, cols) ==
  [schema |-> cols,
   rows |-> [i \in 1..Len(df.rows) |-> [c \in cols |-> df.rows[i][c]]]]

PickSeq(s, S) ==
  LET F[i \in 0..Len(s)] ==
        IF i = 0 THEN <<>>
        ELSE IF i \in S THEN Append(F[i - 1], s[i]) ELSE F[i - 1]
  IN F[Len(s)]

\* df.withColumn(name, column): values[i] is the column's value on row i
WithColumn(df, name, values) ==
  [schema |-> df.schema \cup {name},
   rows |-> [i \in 1..Len(df.rows) |->
              [c \in df.schema \cup {name} |->
                 IF c = name THEN values[i] ELSE df.rows[i][c]]]]

DedupSeq(s) ==
  LET F[i \in 0..Len(s)] ==
        IF i = 0 THEN <<>>
        ELSE IF \E j \in 1..(i - 1) : s[j] = s[i] THEN F[i - 1]
             ELSE Append(F[i - 1], s[i])
  IN F[Len(s)]

\* df.distinct(): one row per distinct full tuple
Distinct(df) == [schema |-> df.schema, rows |-> DedupSeq(df.rows)]

DropDuplicates_FullTuple(df, subset) == { Distinct(df) }

\* df.dropDuplicates(subset): one row per distinct value of the subset
\* columns; which row of a group survives is not determined.
DropDuplicates(df, subset) ==
  LET n == Len(df.rows)
      key(i) == [c \in subset |-> df.rows[i][c]]
      Picks == { S \in SUBSET (1..n) :
                   \A i \in 1..n :
                      Cardinality({ j \in S : key(j) = key(i) }) = 1 }
  IN { [schema |-> df.schema, rows |-> PickSeq(df.rows, S)] : S \in Picks }

\* df.filter(column): keep[i] is the column's value on row i
Filter(df, keep) ==
  [schema |-> df.schema,
   rows |-> PickSeq(df.rows, { i \in 1..Len(df.rows) : keep[i] })]

\* left.join(right, column, "inner"): on[i][j] is the column's value on the
\* pair of left row i and right row j
Join(left, right, on) ==
  LET n == Len(left.rows)
      m == Len(right.rows)
      Li(k) == ((k - 1) \div m) + 1
      Ri(k) == ((k - 1) % m) + 1
      F[k \in 0..(n * m)] ==
        IF k = 0 THEN <<>>
        ELSE IF on[Li(k)][Ri(k)]
             THEN Append(F[k - 1], <<left.rows[Li(k)], right.rows[Ri(k)]>>)
             ELSE F[k - 1]
  IN [left |-> left.schema, right |-> right.schema, rows |-> F[n * m]]

\* joined[c1, c2, ...] for column names carried by one side only
SelectJoined(joined, cols) ==
  [schema |-> cols,
   rows |-> [i \in 1..Len(joined.rows) |->
              [c \in cols |-> IF c \in joined.left
                              THEN joined.rows[i][1][c]
                              ELSE joined.rows[i][2][c]]]]

\* Column equality (==) of two nullable values: a null never matches.
EqualTo(a, b) == a # Null /\ b # Null /\ a = b

(* ------------------------------ casts --------------------------------- *)
Digits == <<"0", "1", "2", "3", "4", "5", "6", "7", "8", "9">>

IsDigit(ch) == \E d \in 1..10 : Digits[d] = ch

DigitVal(ch) == (CHOOSE d \in 1..10 : Digits[d] = ch) - 1

TrimChars(s) ==
  LET keep == { i \in 1..Len(s) : s[i] # " " }
  IN IF keep = {} THEN <<>>
     ELSE LET lo == CHOOSE i \in keep : \A j \in keep : i <= j
              hi == CHOOSE i \in keep : \A j \in keep : j <= i
          IN SubSeq(s, lo, hi)

\* column.cast(IntegerType()) of a string: surrounding blanks are trimmed,
\* an optional sign and decimal digits give the number, anything else null.
CastInt(s) ==
  LET t == TrimChars(s)
      signed == Len(t) > 0 /\ t[1] \in {"+", "-"}
      body == IF signed THEN Tail(t) ELSE t
      Val[i \in 0..Len(body)] ==
        IF i = 0 THEN 0 ELSE 10 * Val[i - 1] + DigitVal(body[i])
  IN IF body = <<>> \/ \E i \in 1..Len(body) : ~IsDigit(body[i])
     THEN Null
     ELSE Some(IF signed /\ t[1] = "-" THEN 0 - Val[Len(body)]
               ELSE Val[Len(body)])

(* ----------------------------- calendar ------------------------------- *)
\* proleptic Gregorian date of a day number counted from 1970-01-01
CivilFromDays(days) ==
  LET z == days + 719468
      era == z \div 146097
      doe == z - era * 146097
      yoe == (doe - (doe \div 1460) + (doe \div 36524) - (doe \div 146096))
               \div 365
      doy == doe - (365 * yoe + (yoe \div 4) - (yoe \div 100))
      mp == (5 * doy + 2) \div 153
      d == doy - ((153 * mp + 2) \div 5) + 1
      m == IF mp < 10 THEN mp + 3 ELSE mp - 9
      y == yoe + era * 400 + (IF m <= 2 THEN 1 ELSE 0)
  IN [year |-> y, month |-> m, day |-> d]

DaysFromCivil(y0, m, d) ==
  LET y == IF m <= 2 THEN y0 - 1 ELSE y0
      era == y \div 400
      yoe == y - era * 400
      doy == ((153 * (IF m > 2 THEN m - 3 ELSE m + 9) + 2) \div 5) + d - 1
      doe == yoe * 365 + (yoe \div 4) - (yoe \div 100) + doy
  IN era * 146097 + doe - 719468

Div1000_Floor(t) == [whole |-> t.s, millis |-> 0]

\* t / 1000: true division, the milliseconds become the fractional part
Div1000(t) == [whole |-> t.s, millis |-> t.ms]

\* datetime.fromtimestamp(x): naive local date and time of x seconds
FromTimestamp(x) ==
  LET local == x.whole + LocalUtcOffset
      date == CivilFromDays(local \div 86400)
      sod == local % 86400
  IN [year |-> date.year, month |-> date.month, day |-> date.day,
      hour |-> sod \div 3600, minute |-> (sod % 3600) \div 60,
      second |-> sod % 60, microsecond |-> x.millis * 1000]

\* datetime.isoformat(): "YYYY-MM-DDTHH:MM:SS[.ffffff]", kept as the tuple
\* of its numeric fields; the fraction is absent when microsecond is 0.
IsoFormat(dt) ==
  LET head == <<dt.year, dt.month, dt.day, dt.hour, dt.minute, dt.second>>
  IN IF dt.microsecond = 0 THEN head ELSE Append(head, dt.microsecond)

\* the udf: lambda t: datetime.fromtimestamp(t / 1000).isoformat()
get_timestamp(t) == IsoFormat(FromTimestamp(Div1000(t)))

\* string.cast(TimestampType()): secs counts wall-clock seconds of the
\* session time zone, micros the fraction of the second.
CastTimestamp(str) ==
  [secs |-> DaysFromCivil(str[1], str[2], str[3]) * 86400
            + str[4] * 3600 + str[5] * 60 + str[6],
   micros |-> IF Len(str) > 6 THEN str[7] ELSE 0]

\* to_date(c).cast(TimestampType()): midnight of the day of c
ToDate(tstamp) == [secs |-> (tstamp.secs \div 86400) * 86400, micros |-> 0]

hour(tstamp) == (tstamp.secs % 86400) \div 3600

dayofmonth(tstamp) == CivilFromDays(tstamp.secs \div 86400).day

month(tstamp) == CivilFromDays(tstamp.secs \div 86400).month

year(tstamp) == CivilFromDays(tstamp.secs \div 86400).year

\* ISO 8601 week number: the week of the Thursday of the same week
weekofyear(tstamp) ==
  LET days == tstamp.secs \div 86400
      isoWeekday == ((days + 3) % 7) + 1
      thursday == days - isoWeekday + 4
      isoYear == CivilFromDays(thursday).year
  IN ((thursday - DaysFromCivil(isoYear, 1, 1)) \div 7) + 1

\* 1 = Sunday ... 7 = Saturday
dayofweek(tstamp) == (((tstamp.secs \div 86400) + 4) % 7) + 1

(* --------------------------- surrogate ids ---------------------------- *)
MonotonicallyIncreasingId_NoPartition(p, i) == <<0, i>>

\* monotonically_increasing_id(): (partition << 33) + position of the row
\* in its partition, kept as the pair <<partition, position>>.
MonotonicallyIncreasingId(p, i) == <<p, i>>

IdLess(a, b) == a[1] < b[1] \/ (a[1] = b[1] /\ a[2] < b[2])

\* df.withColumn(name, monotonically_increasing_id()) over rows that the
\* shuffle of distinct() has placed in partitions: part[i] is the partition
\* of row i; the rows come out partition by partition.
WithIdColumn(df, name, part) ==
  LET n == Len(df.rows)
      Pos(i) == Cardinality({ j \in 1..(i - 1) : part[j] = part[i] })
      Tag(i) == [c \in df.schema \cup {name} |->
                   IF c = name THEN MonotonicallyIncreasingId(part[i], Pos(i))
                   ELSE df.rows[i][c]]
      OfPartition[p \in 0..NumPartitions] ==
        IF p = 0 THEN <<>>
        ELSE OfPartition[p - 1] \o
             PickSeq([i \in 1..n |-> Tag(i)], { i \in 1..n : part[i] = p - 1 })
  IN [schema |-> df.schema \cup {name}, rows |-> OfPartition[NumPartitions]]

(* ------------------------- the transformations ------------------------ *)
SongsColumns == {"song_id", "title", "artist_id", "year", "duration"}

ArtistsColumns ==
  {"artist_id", "artist_name", "artist_location", "artist_latitude",
   "artist_longitude"}

UsersColumns == {"firstName", "lastName", "gender", "level", "userId"}

TimeColumns == {"start_time", "hour", "day", "week", "month", "year", "weekday"}

SongplaysColumns ==
  {"start_time", "userId", "level", "sessionId", "location", "userAgent",
   "song_id", "artist_id"}

\* df["song_id", "title", "artist_id", "year", "duration"]
SongsProjection(files) == Select(read_song_data(files), SongsColumns)

\* df[...].distinct() of the artist columns
ArtistsTable(files) == Distinct(Select(read_song_data(files), ArtistsColumns))

UserIdColumn(r) == CastInt(r.userId)

IsNextSong_Any(r) == TRUE

\* df.page == "NextSong"
IsNextSong(r) == r.page = "NextSong"

\* df.withColumn("user_id", df.userId.cast(IntegerType())).filter(...)
FilteredLog(events) ==
  LET df == read_log_data(events)
      n == Len(df.rows)
  IN Filter(WithColumn(df, "user_id",
                       [i \in 1..n |-> UserIdColumn(df.rows[i])]),
            [i \in 1..n |-> IsNextSong(df.rows[i])])

UserTable(events) == Distinct(Select(FilteredLog(events), UsersColumns))

\* get_timestamp("ts").cast(TimestampType())
StartTimeColumn(r) == CastTimestamp(get_timestamp(r.ts))

\* to_date("start_time").cast(TimestampType())
DatetimeColumn(r) == ToDate(r.start_time)

\* the row after the withColumn calls for start_time, datetime, hour, day,
\* month, year, week and weekday
TimedRow(r) ==
  LET r1 == r @@ ("start_time" :> StartTimeColumn(r))
  IN r1 @@ [datetime |-> DatetimeColumn(r1),
            hour |-> hour(r1.start_time),
            day |-> dayofmonth(r1.start_time),
            month |-> month(r1.start_time),
            year |-> year(r1.start_time),
            week |-> weekofyear(r1.start_time),
            weekday |-> dayofweek(r1.start_time)]

\* the filtered log with start_time, datetime and the calendar columns
TimedLog(events) ==
  LET df == FilteredLog(events)
  IN [schema |-> df.schema \cup {"start_time", "datetime", "hour", "day",
                                 "month", "year", "week", "weekday"},
      rows |-> [i \in 1..Len(df.rows) |-> TimedRow(df.rows[i])]]

TimeTable(events) == Distinct(Select(TimedLog(events), TimeColumns))

JoinCondition_NullSafe(l, s) == s.artist_name = l.artist

\* song_df.artist_name == df.artist
JoinCondition(l, s) == EqualTo(s.artist_name, l.artist)

\* the join column evaluated on every pair of rows
JoinOn(left, right) ==
  [i \in 1..Len(left.rows) |->
     [j \in 1..Len(right.rows) |->
        JoinCondition(left.rows[i], right.rows[j])]]

\* df.join(song_df, ..., "inner")[eight columns].distinct()
SongplaysDistinct(events, files) ==
  Distinct(SelectJoined(Join(TimedLog(events), read_song_data(files),
                             JoinOn(TimedLog(events), read_song_data(files))),
                        SongplaysColumns))

(* ------------------------------- sink --------------------------------- *)
SongsPath == "songs/songs_table.parquet"
ArtistsPath == "artists/artists_table.parquet"
UsersPath == "users/users_table.parquet"
TimePath == "time/time_table.parquet"
SongplaysPath == "songplays/songplays_table.parquet"

Paths == {SongsPath, ArtistsPath, UsersPath, TimePath, SongplaysPath}

NoTable == [exists |-> FALSE, partitionBy |-> {}, schema |-> {}, rows |-> <<>>]

PathNotFound == "AnalysisException: Path does not exist"
PathExists == "AnalysisException: path already exists"
PartitionColumnNotFound == "AnalysisException: Partition column not found"
WriteFailure == "WriteFailure"

\* DataFrameWriter.parquet(path) in the default save mode (errorifexists):
\* the partition columns must be columns of the frame, the path must not
\* exist yet, and the storage must accept the files (ok).
WriteOutcome(df, path, partitionCols, ok, st) ==
  IF ~(partitionCols \subseteq df.schema) THEN PartitionColumnNotFound
  ELSE IF st[path].exists THEN PathExists
  ELSE IF ~ok THEN WriteFailure
  ELSE "none"

Stages == <<"songs", "artists", "users", "time", "songplays">>

\* the statement that follows a stage in main
NextPc(stage) ==
  IF stage = "songplays" THEN "done"
  ELSE Stages[(CHOOSE i \in 1..4 : Stages[i] = stage) + 1]

OnError_Continue(stage) == NextPc(stage)

\* an exception is caught nowhere: it ends the process
OnError(stage) == "aborted"

\* if ALLOW_WRITE: df.write.partitionBy(*partitionCols).parquet(path)
Parquet(df, path, partitionCols, ok, stage) ==
  LET out == WriteOutcome(df, path, partitionCols, ok, store)
  IN IF ~ALLOW_WRITE
     THEN /\ pc' = NextPc(stage)
          /\ UNCHANGED <<store, written, error>>
     ELSE IF out = "none"
     THEN /\ store' = [store EXCEPT ![path] =
                         [exists |-> TRUE, partitionBy |-> partitionCols,
                          schema |-> df.schema, rows |-> df.rows]]
          /\ written' = Append(written, path)
          /\ error' = "none"
          /\ pc' = NextPc(stage)
     ELSE /\ error' = out
          /\ pc' = OnError(stage)
          /\ UNCHANGED <<store, written>>

\* spark.read.json fails when the glob matches no file
ReadFails(stage) ==
  /\ error' = PathNotFound
  /\ pc' = OnError(stage)
  /\ UNCHANGED <<store, written>>

(* ------------------------------ actions ------------------------------- *)
Init ==
  /\ catalog \in { [i \in DOMAIN f |-> SongFiles[f[i]]]
                   : f \in Bags(Len(SongFiles), MaxCatalog) }
  /\ log \in { [i \in DOMAIN f |-> LogEvents[f[i]]]
               : f \in Bags(Len(LogEvents), MaxLog) }
  /\ store = [p \in Paths |-> NoTable]
  /\ pc = "idle"
  /\ run = 0
  /\ error = "none"
  /\ written = <<>>
  /\ previous = [pc |-> "idle", error |-> "none",
                 store |-> [p \in Paths |-> NoTable]]
  /\ songs_table = NoDF
  /\ artists_table = NoDF
  /\ user_table = NoDF
  /\ time_table = NoDF
  /\ songplays_table = NoDF

\* main(): one invocation of the job
Main ==
  /\ pc \in {"idle", "done", "aborted"}
  /\ run < MaxRuns
  /\ run' = run + 1
  /\ pc' = "songs"
  /\ error' = "none"
  /\ written' = <<>>
  /\ previous' = [pc |-> pc, error |-> error, store |-> store]
  /\ songs_table' = NoDF
  /\ artists_table' = NoDF
  /\ user_table' = NoDF
  /\ time_table' = NoDF
  /\ songplays_table' = NoDF
  /\ UNCHANGED <<catalog, log, store>>

\* process_song_data: read, songs_table, write of songs_table
WriteSongsTable ==
  /\ pc = "songs"
  /\ IF catalog = <<>>
     THEN /\ ReadFails("songs")
          /\ UNCHANGED songs_table
     ELSE \E df \in DropDuplicates(SongsProjection(catalog), {"song_id"}),
             ok \in BOOLEAN :
            /\ songs_table' = df
            /\ Parquet(songs_table', SongsPath, {"year", "artist_id"}, ok,
                       "songs")
  /\ UNCHANGED <<catalog, log, run, previous, artists_table, user_table,
                 time_table, songplays_table>>

\* process_song_data: artists_table and its write
WriteArtistsTable ==
  /\ pc = "artists"
  /\ \E ok \in BOOLEAN :
       /\ artists_table' = ArtistsTable(catalog)
       /\ Parquet(artists_table', ArtistsPath, {}, ok, "artists")
  /\ UNCHANGED <<catalog, log, run, previous, songs_table, user_table,
                 time_table, songplays_table>>

\* process_log_data: read, filter, user_table and its write
WriteUsersTable ==
  /\ pc = "users"
  /\ IF log = <<>>
     THEN /\ ReadFails("users")
          /\ UNCHANGED user_table
     ELSE \E ok \in BOOLEAN :
            /\ user_table' = UserTable(log)
            /\ Parquet(user_table', UsersPath, {}, ok, "users")
  /\ UNCHANGED <<catalog, log, run, previous, songs_table, artists_table,
                 time_table, songplays_table>>

\* process_log_data: timestamp columns, time_table and its write
WriteTimeTable ==
  /\ pc = "time"
  /\ \E ok \in BOOLEAN :
       /\ time_table' = TimeTable(log)
       /\ Parquet(time_table', TimePath, {"year", "month"}, ok, "time")
  /\ UNCHANGED <<catalog, log, run, previous, songs_table, artists_table,
                 user_table, songplays_table>>

\* process_log_data: join, songplays_table and its write
WriteSongplaysTable ==
  /\ pc = "songplays"
  /\ LET plays == SongplaysDistinct(log, catalog)
     IN \E part \in [1..Len(plays.rows) -> 0..(NumPartitions - 1)],
           ok \in BOOLEAN :
          /\ songplays_table' = WithIdColumn(plays, "songplay_id", part)
          /\ Parquet(songplays_table', SongplaysPath, {"year", "month"}, ok,
                     "songplays")
  /\ UNCHANGED <<catalog, log, run, previous, songs_table, artists_table,
                 user_table, time_table>>

Next ==
  \/ Main
  \/ WriteSongsTable
  \/ WriteArtistsTable
  \/ WriteUsersTable
  \/ WriteTimeTable
  \/ WriteSongplaysTable

Spec == Init /\ [][Next]_vars

(* --------------------------- properties ------------------------------- *)
NextSongEvents == { i \in DOMAIN log : log[i].page = "NextSong" }

EnvironmentErrors == {WriteFailure, PathNotFound}

\* the frame a stage computes for the table at a path
TableAt(p) ==
  CASE p = SongsPath -> songs_table
    [] p = ArtistsPath -> artists_table
    [] p = UsersPath -> user_table
    [] p = TimePath -> time_table
    [] p = SongplaysPath -> songplays_table

StageOf(p) ==
  CASE p = SongsPath -> "songs"
    [] p = ArtistsPath -> "artists"
    [] p = UsersPath -> "users"
    [] p = TimePath -> "time"
    [] p = SongplaysPath -> "songplays"

WriteOrder == <<SongsPath, ArtistsPath, UsersPath, TimePath, SongplaysPath>>

Without(r, col) == [c \in (DOMAIN r) \ {col} |-> r[c]]

\* the wall-clock timestamp of an epoch-millisecond value, to the millisecond
ExactTime(t) == [secs |-> t.s + LocalUtcOffset, micros |-> t.ms * 1000]

\* C1: a write to a destination that already holds a table succeeds and
\* leaves exactly the newly computed table there.
C1_OverwritesExisting ==
  [][\A p \in Paths :
       (pc = StageOf(p) /\ store[p].exists /\ pc' # pc
        /\ error' \notin EnvironmentErrors)
       => (error' = "none" /\ store'[p].exists
           /\ store'[p].rows = TableAt(p)'.rows)]_vars

SameIgnoringPlayId(t1, t2) ==
  /\ t1.exists = t2.exists
  /\ { Without(t1.rows[i], "songplay_id") : i \in 1..Len(t1.rows) }
       = { Without(t2.rows[i], "songplay_id") : i \in 1..Len(t2.rows) }

\* C2: two runs in sequence on the same inputs and output root both
\* complete, and the second leaves every table with the contents the first
\* left, play ids aside.
C2_Idempotent ==
  (run >= 2 /\ pc \in {"done", "aborted"}
   /\ error \notin EnvironmentErrors
   /\ previous.error \notin EnvironmentErrors)
  => (pc = "done" /\ previous.pc = "done"
      /\ \A p \in Paths : SameIgnoringPlayId(store[p], previous.store[p]))

\* C3: year and month are columns of the Plays frame at its write, so the
\* partitioned write of Plays does not fail for a missing partition column.
C3_PlaysKeepsYearMonth ==
  Computed(songplays_table)
  => ({"year", "month"} \subseteq songplays_table.schema
      /\ error # PartitionColumnNotFound)

ItemIdsOnce(rows) ==
  /\ { rows[i].song_id : i \in 1..Len(rows) }
       = { catalog[i].song_id : i \in DOMAIN catalog }
  /\ \A i, j \in 1..Len(rows) : rows[i].song_id = rows[j].song_id => i = j

\* C4: Items holds exactly one row for each distinct item id of the catalog
\* and never two rows with the same item id.
C4_OneRowPerItemId ==
  /\ Computed(songs_table) => ItemIdsOnce(songs_table.rows)
  /\ store[SongsPath].exists => ItemIdsOnce(store[SongsPath].rows)

C4_Witness ==
  /\ store[SongsPath].exists
  /\ \E i, j \in DOMAIN catalog :
       /\ catalog[i].song_id = catalog[j].song_id
       /\ catalog[i].duration # catalog[j].duration
  /\ Len(store[SongsPath].rows) = 1

\* C5: every row of Users, Time and Plays comes from an activity record
\* whose page is "NextSong"; records of other pages contribute no row.
C5_OnlyNextSong ==
  /\ \A r \in RowSet(user_table) :
       \E i \in NextSongEvents :
          /\ r.firstName = log[i].firstName
          /\ r.lastName = log[i].lastName
          /\ r.gender = log[i].gender
          /\ r.level = log[i].level
          /\ r.userId = log[i].userId
  /\ \A r \in RowSet(time_table) :
       \E i \in NextSongEvents : r.start_time = ExactTime(log[i].ts)
  /\ \A r \in RowSet(songplays_table) :
       \E i \in NextSongEvents :
          /\ r.start_time = ExactTime(log[i].ts)
          /\ r.userId = log[i].userId
          /\ r.level = log[i].level
          /\ r.sessionId = log[i].sessionId
  /\ NextSongEvents = {}
     => (user_table.rows = <<>> /\ time_table.rows = <<>>
         /\ songplays_table.rows = <<>>)

C5_Witness ==
  /\ Computed(songplays_table)
  /\ \E i \in DOMAIN log : log[i].page # "NextSong"
  /\ NextSongEvents # {}
  /\ Len(user_table.rows) = 1
  /\ Len(time_table.rows) = 1

PlaysRow(l, s) ==
  [start_time |-> ExactTime(l.ts), userId |-> l.userId, level |-> l.level,
   sessionId |-> l.sessionId, location |-> l.location,
   userAgent |-> l.userAgent, song_id |-> s.song_id,
   artist_id |-> s.artist_id]

NameMatches(i) ==
  { j \in DOMAIN catalog :
      /\ log[i].artist # Null
      /\ catalog[j].artist_name # Null
      /\ log[i].artist[1] = catalog[j].artist_name[1] }

\* C6: the Plays rows are the deduplicated projection of exactly the pairs
\* (filtered activity record, catalog record) with equal creator names.
C6_JoinCorrect ==
  Computed(songplays_table)
  => LET expected == UNION { { PlaysRow(log[i], catalog[j])
                               : j \in NameMatches(i) }
                             : i \in NextSongEvents }
         actual == { Without(r, "songplay_id")
                     : r \in RowSet(songplays_table) }
     IN /\ actual = expected
        /\ Len(songplays_table.rows) = Cardinality(expected)

C6_Witness ==
  /\ Computed(songplays_table)
  /\ \E i \in NextSongEvents : NameMatches(i) = {}
  /\ \E i \in NextSongEvents : Cardinality(NameMatches(i)) = 2
  /\ Len(songplays_table.rows) = 1

IsPrefix(s, t) == Len(s) <= Len(t) /\ \A i \in 1..Len(s) : s[i] = t[i]

\* C7: the tables are written in the order Items, Creators, Users, Time,
\* Plays; a failing stage aborts the run, leaves the tables written so far
\* in place and no later table is written.
C7_OrderAndAbort ==
  /\ [](/\ IsPrefix(written, WriteOrder)
        /\ \A i \in 1..Len(written) : store[written[i]].exists)
  /\ [][/\ (error' # "none" /\ pc' # "songs")
           => (pc' = "aborted" /\ store' = store /\ written' = written)
        /\ pc = "aborted" => (store' = store /\ pc' = "songs")]_vars

C7_Witness ==
  /\ pc = "aborted"
  /\ error = WriteFailure
  /\ written = <<SongsPath, ArtistsPath, UsersPath>>
  /\ store[UsersPath].exists
  /\ ~store[TimePath].exists

\* C8 as stated: start_time carries no sub-second part, and the filtered
\* records of one second give a single Time row.
C8_TruncatedToSeconds ==
  Computed(time_table)
  => /\ \A r \in RowSet(time_table) : r.start_time.micros = 0
     /\ \A i \in NextSongEvents :
          Cardinality({ r \in RowSet(time_table) :
                          r.start_time.secs = log[i].ts.s + LocalUtcOffset })
            = 1

\* C8 amended: start_time keeps the milliseconds of timestamp_ms, so the
\* filtered records of one second give one Time row per distinct
\* millisecond value.
C8_MillisecondsKept ==
  Computed(time_table)
  => \A i \in NextSongEvents :
       /\ \E r \in RowSet(time_table) : r.start_time = ExactTime(log[i].ts)
       /\ Cardinality({ r \in RowSet(time_table) :
                          r.start_time.secs = log[i].ts.s + LocalUtcOffset })
            = Cardinality({ log[j].ts.ms :
                            j \in { k \in NextSongEvents :
                                      log[k].ts.s = log[i].ts.s } })

C8_Witness ==
  /\ Computed(time_table)
  /\ \E i, j \in NextSongEvents :
       log[i].ts.s = log[j].ts.s /\ log[i].ts.ms # log[j].ts.ms
  /\ Len(time_table.rows) = 2
  /\ time_table.rows[1].start_time.secs = time_table.rows[2].start_time.secs

\* C9: Users is the deduplicated projection of the four attributes and the
\* integer-coerced user id, which is what its user_id column holds.
C9_UsersCoerced ==
  Computed(user_table)
  => /\ "user_id" \in user_table.schema
     /\ Len(user_table.rows)
          = Cardinality({ <<log[i].firstName, log[i].lastName, log[i].gender,
                            log[i].level, CastInt(log[i].userId)>>
                          : i \in NextSongEvents })

\* C10: every Plays row has a play id, assigned after the deduplication;
\* the ids are strictly increasing in generation order, hence distinct.
C10_PlayIdsIncrease ==
  Computed(songplays_table)
  => LET rows == songplays_table.rows
     IN /\ "songplay_id" \in songplays_table.schema
        /\ \A i, j \in 1..Len(rows) :
             i < j => IdLess(rows[i].songplay_id, rows[j].songplay_id)
        /\ Cardinality({ Without(rows[i], "songplay_id") : i \in 1..Len(rows) })
             = Len(rows)

C10_Witness ==
  /\ Computed(songplays_table)
  /\ Len(songplays_table.rows) >= 2
  /\ \E i, j \in 1..Len(songplays_table.rows) :
       songplays_table.rows[i].songplay_id[1]
         # songplays_table.rows[j].songplay_id[1]

====
